---- MODULE Spec2Model ----
(***************************************************************************)
(* Model of mvfy_visual's VisualKnowledge pipeline                         *)
(* (src/src/mvfy/visual/systems/visual_knowledge.py, src/src/mvfy/visual/  *)
(* func.py): the user store, the duplicate-detection sweep, the evaluation *)
(* of a detected user, and the batch loop with its two queue consumers.    *)
(*                                                                         *)
(* Embeddings are integers and two embeddings match when they differ by at *)
(* most max_descriptor_distance (matching is reflexive and symmetric, not  *)
(* transitive).  Dates are integers read from the clock `now`.             *)
(* Frequencies are integers in tenths (min_frequency 0.7 is 7).            *)
(***************************************************************************)
EXTENDS Integers, Sequences, FiniteSets, TLC

VARIABLES
    db,             \* the users collection of the store, in natural order
    now,            \* the clock (datetime.now())
    sw_pc,          \* remove_users_duplicate_detection: "idle", "loop", "done", "raised"
    sw_authors,     \* detector.authors of the sweep's own detector
    sw_encodings,   \* detector.encodings of the sweep's own detector
    idx,            \* the sweep's idx
    sweeps,         \* history: number of sweeps started
    removed,        \* history: records the sweeps deleted, with the head that matched
    heads,          \* history: authors taken as head, per sweep
    evaluate_users, \* the queue self.evaluate_users
    kn_authors,     \* detector_knows.authors
    kn_encodings,   \* detector_knows.encodings
    ev_pc,          \* evaluate_detections: "get", "append_authors", "append_encodings"
    user_evaludated,\* evaluate_detections' local
    ev_hist,        \* history: the last evaluation (record before, clock, outcome)
    produced,       \* history: number of items put on the queues
    new_users,      \* the queue self.new_users
    un_authors,     \* detector_unknows.authors
    un_encodings,   \* detector_unknows.encodings
    in_pc,          \* add_new_users: "get", "append_authors", "append_encodings"
    new_user,       \* add_new_users' local
    batch_processed,\* self.__batch_processed
    st_pc,          \* start: "preload", "pull", "gather", "raised"
    tasks,          \* the detect_type_user tasks of the batch, one per analysed frame
    next_author,    \* uuid.uuid4(): the next author id, never handed out before
    rl_pc,          \* __preload: "idle", "sweep", "known", "known_assign", "unknown",
                    \* "unknown_assign"
    reloads,        \* history: number of scheduled reloads started
    rl_appended,    \* history: a worker appended to a set while __preload rebuilt them
    rl_users,       \* the list get_users returned to the reload step awaiting it
    pulled,         \* history: number of batches pulled
    puts,           \* history: the queue writes of the current batch
    prev_wrote,     \* history: whether the batch before wrote to a queue
    frequency_save_new_unknows, \* self.frequency_save_new_unknows, set in __init__
    batch_images,   \* self.batch_images
    sink,           \* history: what streamer.save was handed for the batch pulled last
    saves           \* history: number of batches handed to streamer.save

sweep_vars == <<sw_pc, sw_authors, sw_encodings, idx, sweeps, removed, heads>>

eval_vars ==
    <<evaluate_users, kn_authors, kn_encodings, ev_pc, user_evaludated, ev_hist, produced>>

ingest_vars == <<new_users, un_authors, un_encodings, in_pc, new_user>>

batch_vars == <<batch_processed, st_pc, tasks, next_author, pulled, puts, prev_wrote,
               sink, saves>>

reload_vars == <<rl_pc, reloads, rl_appended, rl_users>>

config_vars == <<frequency_save_new_unknows, batch_images>>

pipe_vars == <<ingest_vars, batch_vars, reload_vars, config_vars>>

\* ---------------------------------------------------------------- bounds

MaxUsers == 3
MaxEncoding == 2
MaxFrequency == 1
MaxSweeps == 2
MaxSweepUsers == 6      \* SpecSweepTwice: users in the store
MaxSweepEncoding == 4   \* SpecSweepTwice: embeddings are 0..MaxSweepEncoding
MaxTime == 4            \* the clock stops at MaxTime
MaxProduced == 2        \* most items put on the queues in a run
MaxEvalUsers == 1       \* SpecEval: users in the store
MaxInitDate == 1        \* SpecEval: the clock at the start; stored dates are 0..MaxInitDate
MaxInitUsers == 1       \* Spec: users in the store at construction
MaxFaces == 1           \* Spec: faces found in one frame
MaxBatches == 3         \* Spec: batches pulled in a run
MaxReloads == 1         \* Spec: scheduled reloads in a run
MaxSaveEvery == 3       \* Spec: the configured frequency_save_new_unknows is 0..MaxSaveEvery
MaxBatchImages == 2     \* Spec: the configured batch_images is 1..MaxBatchImages

\* ------------------------------------------------- configuration (fields)

max_descriptor_distance == 1

\* min_date_knowledge[0], the span, in the unit min_date_knowledge[1]
min_date_knowledge == 2

\* min_frequency, 0.7, in tenths
min_frequency == 7

remove_duplicate == TRUE

Authors == 1..MaxUsers
Encodings == 0..MaxEncoding
Frequencies == 0..MaxFrequency

\* ------------------------------------------------------ numpy / detector

\* Detector.compare: the boolean match vector of one embedding against the
\* detector's encodings.
Match(a, b) == (IF a >= b THEN a - b ELSE b - a) <= max_descriptor_distance

compare(encodings, encoding) ==
    [i \in 1..Len(encodings) |-> Match(encodings[i], encoding)]

\* np.any
np_any(mask) == \E i \in 1..Len(mask) : mask[i]

\* np.invert
np_invert(mask) == [i \in 1..Len(mask) |-> ~mask[i]]

\* arr[mask] with a boolean mask of the same length
RECURSIVE MaskSelect(_, _)
MaskSelect(arr, mask) ==
    IF arr = <<>> THEN <<>>
    ELSE (IF Head(mask) THEN <<Head(arr)>> ELSE <<>>)
         \o MaskSelect(Tail(arr), Tail(mask))

\* arr[k:] (k counted from 0)
SliceFrom(arr, k) == SubSeq(arr, k + 1, Len(arr))

Range(s) == {s[i] : i \in 1..Len(s)}

\* ------------------------------------------------------------ the store

\* UserUseCases.delete_user({'author': author})
delete_user(users, author) ==
    LET keep(u) == u.author # author IN SelectSeq(users, keep)

RECURSIVE delete_users(_, _)
delete_users(users, authors) ==
    IF authors = <<>> THEN users
    ELSE delete_users(delete_user(users, Head(authors)), Tail(authors))

\* one insertion of a stable sort by frequency, descending
RECURSIVE InsertDescending(_, _)
InsertDescending(u, s) ==
    IF s = <<>> THEN <<u>>
    ELSE IF Head(s).frequency >= u.frequency
         THEN <<Head(s)>> \o InsertDescending(u, Tail(s))
         ELSE <<u>> \o s

RECURSIVE InsertAscending(_, _)
InsertAscending(u, s) ==
    IF s = <<>> THEN <<u>>
    ELSE IF Head(s).frequency <= u.frequency
         THEN <<Head(s)>> \o InsertAscending(u, Tail(s))
         ELSE <<u>> \o s

RECURSIVE SortAscending(_)
SortAscending(users) ==
    IF users = <<>> THEN <<>>
    ELSE InsertAscending(users[Len(users)],
                         SortAscending(SubSeq(users, 1, Len(users) - 1)))

RECURSIVE SortDescending(_)
SortDescending(users) ==
    IF users = <<>> THEN <<>>
    ELSE InsertDescending(users[Len(users)],
                          SortDescending(SubSeq(users, 1, Len(users) - 1)))

\* The filter __preload hands to the sweep: {"system_id": self.id}.  The
\* store holds one system's users, so every user passes, whatever its
\* knowledge.
sweep_filter(u) == TRUE

get_sort_users_ascending(users) == SortAscending(SelectSeq(users, sweep_filter))

\* use_cases.get_sort_users(_filter, [('frequency', pymongo.DESCENDING)])
get_sort_users(users) == SortDescending(SelectSeq(users, sweep_filter))

UserOf(users, author) ==
    (CHOOSE i \in 1..Len(users) : users[i].author = author)

\* ------------------------------------ remove_users_duplicate_detection

\* One pass of the while loop, on the state s = [db, authors, encodings,
\* idx, pc, removed, heads] of a sweep numbered `run`.
SweepMatched(s) ==
    LET authors   == SliceFrom(s.authors, s.idx + 1)
        encodings == SliceFrom(s.encodings, s.idx + 1)
    IN  MaskSelect(authors, compare(encodings, s.encodings[s.idx + 1]))

SweepMatchedFirst(s) ==
    LET m == SweepMatched(s) IN IF m = <<>> THEN m ELSE <<Head(m)>>

\* the authors the loop body deletes from the store: detector.authors[comparations]
SweepDeleted(s) == SweepMatched(s)

\* a loop body that moves idx on without slicing the detector's arrays
SweepBodyNoSlice(s, run) ==
    IF ~(Len(s.encodings) > 0) THEN [s EXCEPT !.pc = "done"]
    ELSE IF s.idx + 1 >= Len(s.encodings) THEN [s EXCEPT !.pc = "done"]
    ELSE [s EXCEPT !.idx = s.idx + 1]

\* one pass of the while loop: the test, the `idx = None; continue` exit, or
\* the body
SweepBody(s, run) ==
    IF ~(Len(s.encodings) > 0) THEN [s EXCEPT !.pc = "done"]
    ELSE IF s.idx + 1 >= Len(s.encodings) THEN [s EXCEPT !.pc = "done"]
    ELSE
        LET encoding     == s.encodings[s.idx + 1]
            head         == s.authors[s.idx + 1]
            encodings    == SliceFrom(s.encodings, s.idx + 1)
            authors      == SliceFrom(s.authors, s.idx + 1)
            comparations == compare(encodings, encoding)
            deleted      == SweepDeleted(s)
            headUser     == s.db[UserOf(s.db, head)]
        IN  [s EXCEPT
               !.db = delete_users(s.db, deleted),
               !.authors = IF np_any(comparations)
                           THEN MaskSelect(authors, np_invert(comparations))
                           ELSE authors,
               !.encodings = IF np_any(comparations)
                             THEN MaskSelect(encodings, np_invert(comparations))
                             ELSE encodings,
               !.idx = s.idx + 1,
               !.removed = s.removed \cup
                   {[user |-> s.db[UserOf(s.db, a)], head |-> headUser, run |-> run] :
                        a \in Range(deleted)},
               !.heads = s.heads \cup {[author |-> head, run |-> run]}]

\* the start of the function: the sorted users are loaded in the detector.
\* `users != [] or users is not None` is true of every value, and unpacking
\* zip(*[]) raises.
SweepLoad(s) ==
    LET users == get_sort_users(s.db)
    IN  IF users = <<>> THEN [s EXCEPT !.pc = "raised"]
        ELSE [s EXCEPT !.authors = [i \in 1..Len(users) |-> users[i].author],
                       !.encodings = [i \in 1..Len(users) |-> users[i].detection],
                       !.idx = 0,
                       !.pc = "loop"]

SweepState ==
    [db |-> db, authors |-> sw_authors, encodings |-> sw_encodings, idx |-> idx,
     pc |-> sw_pc, removed |-> removed, heads |-> heads]

SetSweepState(s) ==
    /\ db' = s.db
    /\ sw_authors' = s.authors
    /\ sw_encodings' = s.encodings
    /\ idx' = s.idx
    /\ sw_pc' = s.pc
    /\ removed' = s.removed
    /\ heads' = s.heads

SweepStart ==
    /\ sw_pc \in {"idle", "done", "raised"}
    /\ sweeps < MaxSweeps
    /\ sweeps' = sweeps + 1
    /\ SetSweepState(SweepLoad(SweepState))
    /\ UNCHANGED <<now, eval_vars, pipe_vars>>

SweepIter ==
    /\ sw_pc = "loop"
    /\ SetSweepState(SweepBody(SweepState, sweeps))
    /\ UNCHANGED <<now, sweeps, eval_vars, pipe_vars>>

SweepIdle ==
    /\ sw_pc = "idle"
    /\ sw_authors = <<>>
    /\ sw_encodings = <<>>
    /\ idx = 0
    /\ sweeps = 0
    /\ removed = {}
    /\ heads = {}

NoUser == [author |-> 0]

EvalIdle ==
    /\ evaluate_users = <<>>
    /\ kn_authors = <<>>
    /\ kn_encodings = <<>>
    /\ ev_pc = "get"
    /\ user_evaludated = NoUser
    /\ ev_hist = [kind |-> "none"]
    /\ produced = 0

\* the consumers wait on empty queues and the batch loop has not started
PipeIdle ==
    /\ new_users = <<>>
    /\ un_authors = <<>>
    /\ un_encodings = <<>>
    /\ in_pc = "get"
    /\ new_user = NoUser
    /\ batch_processed = 0
    /\ st_pc = "preload"
    /\ tasks = <<>>
    /\ next_author = 1
    /\ rl_pc = "sweep"
    /\ reloads = 0
    /\ rl_appended = FALSE
    /\ rl_users = <<>>
    /\ frequency_save_new_unknows = 2
    /\ batch_images = 2
    /\ sink = [kind |-> "none", images |-> <<>>]
    /\ saves = 0
    /\ pulled = 0
    /\ puts = {}
    /\ prev_wrote = FALSE

\* Every store of at most MaxUsers users; the author of the i-th user is i.
UserFields ==
    [detection : Encodings, knowledge : BOOLEAN, frequency : Frequencies]

StoreOf(f) ==
    [i \in DOMAIN f |-> [author |-> i, detection |-> f[i].detection,
                         knowledge |-> f[i].knowledge, frequency |-> f[i].frequency,
                         init_date |-> 0, last_date |-> 0]]

InitSweep ==
    /\ \E n \in 0..MaxUsers : \E f \in [1..n -> UserFields] : db = StoreOf(f)
    /\ now = 0
    /\ SweepIdle
    /\ EvalIdle
    /\ PipeIdle

\* Stores of unknown users of one frequency, over more users and embeddings:
\* the sweep reads no knowledge, and frequencies only order the list.
InitSweepTwice ==
    /\ \E n \in 0..MaxSweepUsers : \E f \in [1..n -> 0..MaxSweepEncoding] :
           db = [i \in 1..n |-> [author |-> i, detection |-> f[i],
                                 knowledge |-> FALSE, frequency |-> 0,
                                 init_date |-> 0, last_date |-> 0]]
    /\ now = 0
    /\ SweepIdle
    /\ EvalIdle
    /\ PipeIdle

vars == <<db, now, sweep_vars, eval_vars, pipe_vars>>

NextSweep == SweepStart \/ SweepIter

SpecSweep == InitSweep /\ [][NextSweep]_vars

SpecSweepTwice == InitSweepTwice /\ [][NextSweep]_vars

MaxLoopUsers == 5       \* FairSpecSweep: users in the store

\* Non-empty stores of unknown users of one frequency, enough of them for a
\* loop to make a pass with idx past 0.
InitSweepLoop ==
    /\ \E n \in 1..MaxLoopUsers : \E f \in [1..n -> 0..MaxEncoding] :
           db = [i \in 1..n |-> [author |-> i, detection |-> f[i],
                                 knowledge |-> FALSE, frequency |-> 0,
                                 init_date |-> 0, last_date |-> 0]]
    /\ now = 0
    /\ SweepIdle
    /\ EvalIdle
    /\ PipeIdle

\* the sweep is straight-line awaited code: a started loop takes its next pass
FairSpecSweep == InitSweepLoop /\ [][NextSweep]_vars /\ WF_vars(SweepIter)

\* ------------------------------------------------- evaluate_detection

\* utils.get_date_diff_so_far(date, unit): the time from date to the clock t
get_date_diff_so_far(date, t) == t - date

\* func.find_user({"author": author})
find_user(users, author) ==
    IF \E i \in 1..Len(users) : users[i].author = author
    THEN users[UserOf(users, author)]
    ELSE NoUser

promotes_at_span(user, t) ==
    /\ get_date_diff_so_far(user.init_date, t) >= min_date_knowledge
    /\ user.frequency >= min_frequency

\* diff_date > self.min_date_knowledge[0] and user.frequency >= self.min_frequency
promotes(user, t) ==
    /\ get_date_diff_so_far(user.init_date, t) > min_date_knowledge
    /\ user.frequency >= min_frequency

\* utils.frequency(total, percentage, value, invert): a recurrence count as a
\* share of the span (in tenths), and with invert the count of a share
frequency(total, percentage, value, invert) ==
    IF invert THEN (value * total) \div (10 * percentage)
              ELSE (10 * percentage * value) \div total

\* utils.get_date_diff_so_far(user.last_date, ...) > 0
new_window(user, t) == get_date_diff_so_far(user.last_date, t) > 0

\* `prev_user = user` gives the fetched object a second name: prev_user is
\* the object the branches then change, not a copy of what was fetched.
prev_user(fetched, user) == user

\* func.update_user
update_user(users, user) ==
    [i \in 1..Len(users) |->
        IF users[i].author = user.author THEN user ELSE users[i]]

\* the return statement: the store is written when prev_user != user
evaluate_return(users, fetched, user) ==
    LET write == prev_user(fetched, user) # user
    IN  [kind |-> "user", user |-> user, wrote |-> write,
         db |-> IF write THEN update_user(users, user) ELSE users]

\* evaluate_detection without its `if user is None` test: the attribute reads
\* on None raise
evaluate_detection_unguarded(users, author, t) ==
    LET user == find_user(users, author)
    IN  IF user = NoUser
        THEN [kind |-> "raised", user |-> NoUser, wrote |-> FALSE, db |-> users]
        ELSE IF promotes(user, t)
        THEN evaluate_return(users, user, [user EXCEPT !.knowledge = TRUE])
        ELSE IF new_window(user, t)
        THEN [kind |-> "raised", user |-> user, wrote |-> FALSE, db |-> users]
        ELSE evaluate_return(users, user, user)

\* evaluate_detection(author) on the store `users` at clock t.  kind is
\* "empty" (user not found: {} is returned), "raised" (the elif branch reads
\* self.frequency, which VisualKnowledge does not have) or "user".
evaluate_detection(users, author, t) ==
    LET user == find_user(users, author)
    IN  IF user = NoUser
        THEN [kind |-> "empty", user |-> NoUser, wrote |-> FALSE, db |-> users]
        ELSE IF promotes(user, t)
        THEN evaluate_return(users, user, [user EXCEPT !.knowledge = TRUE])
        ELSE IF new_window(user, t)
        THEN [kind |-> "raised", user |-> user, wrote |-> FALSE, db |-> users]
        ELSE evaluate_return(users, user, user)

\* ------------------------------------------------ evaluate_detections

\* save_evaluate_detection(author)
save_evaluate_detection(author) ==
    /\ evaluate_users' = Append(evaluate_users, author)
    /\ produced' = produced + 1

\* the positions of __preload at which it rebuilds the two sets
ReloadingSets == {"known", "known_assign", "unknown", "unknown_assign"}

\* One pass of the consumer loop up to the test of user_evaludated.knowledge.
\* An empty result has no attribute knowledge and a raise leaves the try
\* block: both end the pass.
EvaluateGet ==
    /\ ev_pc = "get"
    /\ evaluate_users # <<>>
    /\ LET author == Head(evaluate_users)
           r      == evaluate_detection(db, author, now)
       IN  /\ evaluate_users' = Tail(evaluate_users)
           /\ db' = r.db
           /\ ev_hist' = [kind |-> r.kind, before |-> find_user(db, author),
                          at |-> now, user |-> r.user, wrote |-> r.wrote]
           /\ user_evaludated' = IF r.kind = "raised" THEN user_evaludated ELSE r.user
           /\ ev_pc' = IF r.kind = "user" /\ r.user.knowledge
                       THEN "append_authors" ELSE "get"
    /\ UNCHANGED <<now, sweep_vars, kn_authors, kn_encodings, produced, pipe_vars>>

\* self.detector_knows.authors = np.append(self.detector_knows.authors, ...)
EvaluateAppendAuthors ==
    /\ ev_pc = "append_authors"
    /\ kn_authors' = Append(kn_authors, user_evaludated.author)
    /\ ev_pc' = "append_encodings"
    /\ rl_appended' = (rl_appended \/ rl_pc \in ReloadingSets)
    /\ UNCHANGED <<db, now, sweep_vars, evaluate_users, kn_encodings,
                   user_evaludated, ev_hist, produced, ingest_vars, batch_vars,
                   rl_pc, reloads, rl_users, config_vars>>

\* self.detector_knows.encodings = np.append(self.detector_knows.encodings, ...)
EvaluateAppendEncodings ==
    /\ ev_pc = "append_encodings"
    /\ kn_encodings' = Append(kn_encodings, user_evaludated.detection)
    /\ ev_pc' = "get"
    /\ rl_appended' = (rl_appended \/ rl_pc \in ReloadingSets)
    /\ UNCHANGED <<db, now, sweep_vars, evaluate_users, kn_authors,
                   user_evaludated, ev_hist, produced, ingest_vars, batch_vars,
                   rl_pc, reloads, rl_users, config_vars>>

\* datetime.now() moves on
Tick ==
    /\ now < MaxTime
    /\ now' = now + 1
    /\ UNCHANGED <<db, sweep_vars, eval_vars, pipe_vars>>

\* SpecEval: the evaluation consumer alone.  The store holds any users dated
\* up to the start clock, and any author, stored or not, is handed to
\* save_evaluate_detection.
EvalFrequencies == {0, min_frequency - 1, min_frequency, min_frequency + 1}

EvalAuthors == 1..(MaxEvalUsers + 1)

EvalUserFields ==
    [knowledge : BOOLEAN, frequency : EvalFrequencies,
     init_date : 0..MaxInitDate, last_date : 0..MaxInitDate]

InitEval ==
    /\ \E n \in 0..MaxEvalUsers : \E f \in [1..n -> EvalUserFields] :
           /\ \A i \in 1..n : f[i].init_date <= f[i].last_date
           /\ db = [i \in 1..n |-> [author |-> i, detection |-> i % (MaxEncoding + 1),
                                    knowledge |-> f[i].knowledge,
                                    frequency |-> f[i].frequency,
                                    init_date |-> f[i].init_date,
                                    last_date |-> f[i].last_date]]
    /\ now = MaxInitDate
    /\ SweepIdle
    /\ EvalIdle
    /\ PipeIdle

EvalEnqueue ==
    /\ produced < MaxProduced
    /\ \E author \in EvalAuthors : save_evaluate_detection(author)
    /\ UNCHANGED <<db, now, sweep_vars, kn_authors, kn_encodings, ev_pc,
                   user_evaludated, ev_hist, pipe_vars>>

NextEval ==
    \/ EvalEnqueue
    \/ EvaluateGet
    \/ EvaluateAppendAuthors
    \/ EvaluateAppendEncodings
    \/ Tick

SpecEval == InitEval /\ [][NextEval]_vars

\* ------------------------------------------------------------ __preload

RECURSIVE SweepAll(_, _)
SweepAll(s, run) ==
    IF s.pc # "loop" THEN s ELSE SweepAll(SweepBody(s, run), run)

\* func.remove_users_duplicate_detection, from its call to its return
remove_users_duplicate_detection(s, run) == SweepAll(SweepLoad(s), run)

\* func.get_users(_filter): None (here <<>>) when no user passes the filter
get_users(users, knowledge) ==
    LET pass(u) == u.knowledge = knowledge IN SelectSeq(users, pass)

\* the scheduler's trigger fires the __preload job
ReloadFire ==
    /\ rl_pc = "idle"
    /\ st_pc \in {"pull", "gather", "save", "save_raw"}
    /\ reloads < MaxReloads
    /\ reloads' = reloads + 1
    /\ rl_pc' = "sweep"
    /\ rl_appended' = FALSE
    /\ UNCHANGED <<db, now, sweep_vars, eval_vars, ingest_vars, batch_vars, rl_users,
                   config_vars>>

\* __preload up to the sweep.  A raise ends __preload: at start-up it ends
\* start() with it, in the scheduled job it ends the job.
PreloadSweep ==
    /\ rl_pc = "sweep"
    /\ LET s == IF remove_duplicate
                THEN remove_users_duplicate_detection(
                         [SweepState EXCEPT !.pc = "idle"], sweeps + 1)
                ELSE [SweepState EXCEPT !.pc = "done"]
       IN  /\ db' = s.db
           /\ removed' = s.removed
           /\ heads' = s.heads
           /\ sweeps' = sweeps + 1
           /\ rl_pc' = IF s.pc = "raised" THEN "idle" ELSE "known"
           /\ st_pc' = IF s.pc = "raised" /\ st_pc = "preload" THEN "raised" ELSE st_pc
    /\ rl_appended' = FALSE
    /\ UNCHANGED <<now, sw_pc, sw_authors, sw_encodings, idx, eval_vars, ingest_vars,
                   batch_processed, tasks, next_author, pulled, puts, prev_wrote,
                   sink, saves, reloads, rl_users, config_vars>>

\* insert_known_users up to the await: get_users reads the store in the
\* executor and the coroutine resumes later with the list
InsertKnownUsers ==
    /\ rl_pc = "known"
    /\ rl_users' = get_users(db, TRUE)
    /\ rl_pc' = "known_assign"
    /\ UNCHANGED <<db, now, sweep_vars, eval_vars, ingest_vars, batch_vars, reloads,
                   rl_appended, config_vars>>

\* insert_known_users after the await: the two assignments
AssignKnownUsers ==
    /\ rl_pc = "known_assign"
    /\ LET users == rl_users
       IN  /\ kn_authors' = IF users = <<>> THEN kn_authors
                            ELSE [i \in 1..Len(users) |-> users[i].author]
           /\ kn_encodings' = IF users = <<>> THEN kn_encodings
                              ELSE [i \in 1..Len(users) |-> users[i].detection]
    /\ rl_pc' = "unknown"
    /\ rl_users' = <<>>
    /\ UNCHANGED <<db, now, sweep_vars, evaluate_users, ev_pc, user_evaludated,
                   ev_hist, produced, ingest_vars, batch_vars, reloads, rl_appended,
                   config_vars>>

\* insert_unknown_users up to the await
InsertUnknownUsers ==
    /\ rl_pc = "unknown"
    /\ rl_users' = get_users(db, FALSE)
    /\ rl_pc' = "unknown_assign"
    /\ UNCHANGED <<db, now, sweep_vars, eval_vars, ingest_vars, batch_vars, reloads,
                   rl_appended, config_vars>>

\* insert_unknown_users after the await; at start-up start() then checks
\* batch_images and enters its loop
AssignUnknownUsers ==
    /\ rl_pc = "unknown_assign"
    /\ LET users == rl_users
       IN  /\ un_authors' = IF users = <<>> THEN un_authors
                            ELSE [i \in 1..Len(users) |-> users[i].author]
           /\ un_encodings' = IF users = <<>> THEN un_encodings
                              ELSE [i \in 1..Len(users) |-> users[i].detection]
    /\ rl_pc' = "idle"
    /\ rl_users' = <<>>
    /\ rl_appended' = FALSE
    /\ st_pc' = IF st_pc # "preload" THEN st_pc
                ELSE IF batch_images % 2 # 0 THEN "invalid_batch" ELSE "pull"
    /\ UNCHANGED <<db, now, sweep_vars, eval_vars, new_users, in_pc, new_user,
                   batch_processed, tasks, next_author, pulled, puts, prev_wrote,
                   sink, saves, reloads, config_vars>>

\* ------------------------------------------------------- add_new_users

\* what use_cases.add_user can do: insert and return the record, return
\* nothing without inserting, or raise
AddUserOutcomes == {"record", "none", "raised"}

\* the store after use_cases.add_user(user)
add_user(users, user, outcome) ==
    IF outcome = "record" THEN Append(users, user) ELSE users

\* func.insert_user(new_user, db): the store after it; it turns an empty
\* result into None and lets an exception through
insert_user(users, user, outcome) == add_user(users, user, outcome)

\* a consumer that takes the newest item instead of the oldest
IngestGetNewest ==
    /\ in_pc = "get"
    /\ new_users # <<>>
    /\ new_user' = new_users[Len(new_users)]
    /\ new_users' = SubSeq(new_users, 1, Len(new_users) - 1)
    /\ \E outcome \in AddUserOutcomes :
          /\ db' = insert_user(db, new_users[Len(new_users)], outcome)
          /\ in_pc' = IF outcome = "raised" THEN "get" ELSE "append_authors"
    /\ UNCHANGED <<now, sweep_vars, eval_vars, un_authors, un_encodings, batch_vars,
                   reload_vars, config_vars>>

\* new_user = await self.new_users.get(); await func.insert_user(...): the
\* value insert_user returns is not looked at, an exception ends the pass
IngestGet ==
    /\ in_pc = "get"
    /\ new_users # <<>>
    /\ new_user' = Head(new_users)
    /\ new_users' = Tail(new_users)
    /\ \E outcome \in AddUserOutcomes :
          /\ db' = insert_user(db, Head(new_users), outcome)
          /\ in_pc' = IF outcome = "raised" THEN "get" ELSE "append_authors"
    /\ UNCHANGED <<now, sweep_vars, eval_vars, un_authors, un_encodings, batch_vars,
                   reload_vars, config_vars>>

\* self.detector_unknows.authors = np.append(self.detector_unknows.authors, ...)
IngestAppendAuthors ==
    /\ in_pc = "append_authors"
    /\ un_authors' = Append(un_authors, new_user.author)
    /\ in_pc' = "append_encodings"
    /\ rl_appended' = (rl_appended \/ rl_pc \in ReloadingSets)
    /\ UNCHANGED <<db, now, sweep_vars, eval_vars, new_users, un_encodings, new_user,
                   batch_vars, rl_pc, reloads, rl_users, config_vars>>

\* self.detector_unknows.encodings = np.append(self.detector_unknows.encodings, ...)
IngestAppendEncodings ==
    /\ in_pc = "append_encodings"
    /\ un_encodings' = Append(un_encodings, new_user.detection)
    /\ in_pc' = "get"
    /\ rl_appended' = (rl_appended \/ rl_pc \in ReloadingSets)
    /\ UNCHANGED <<db, now, sweep_vars, eval_vars, new_users, un_authors, new_user,
                   batch_vars, rl_pc, reloads, rl_users, config_vars>>

\* ------------------------------------------------- start, the batch loop

\* images_batch[1::2]
images_to_process == batch_images \div 2

\* what get_encodings can return for one frame
FaceLists == UNION {[1..n -> Encodings] : n \in 0..MaxFaces}

\* failed: get_encodings raised, gather hands the exception to detect_type_user
\* as face_properties, and zip(*face_properties) raises in the task
NewTask(faces, failed) ==
    [faces |-> faces, i |-> 1,
     pc |-> IF failed THEN "failed" ELSE IF faces = <<>> THEN "done" ELSE "known",
     batch |-> 0, comp |-> <<>>, known |-> FALSE, unknown |-> FALSE, matched |-> {},
     log |-> <<>>]

\* with self.__thread_lock: images_batch = [...]; get_encodings of every other
\* frame; one detect_type_user task per such frame
Pull ==
    /\ st_pc = "pull"
    /\ pulled < MaxBatches
    /\ \E faces \in [1..images_to_process -> FaceLists] :
       \E failed \in SUBSET (1..images_to_process) :
          tasks' = [t \in 1..images_to_process |->
                       IF t \in failed THEN NewTask(<<>>, TRUE)
                                       ELSE NewTask(faces[t], FALSE)]
    /\ st_pc' = "gather"
    /\ pulled' = pulled + 1
    /\ prev_wrote' = (puts # {})
    /\ puts' = {}
    /\ sink' = [kind |-> "none", images |-> <<>>]
    /\ UNCHANGED <<db, now, sweep_vars, eval_vars, ingest_vars, batch_processed,
                   next_author, saves, reload_vars, config_vars>>

\* with self.__thread_lock: self.__batch_processed += 1, after the gather
Count ==
    /\ st_pc = "gather"
    /\ \A t \in 1..Len(tasks) : tasks[t].pc \in {"done", "failed"}
    /\ batch_processed' = batch_processed + 1
    /\ st_pc' = "save"
    /\ UNCHANGED <<db, now, sweep_vars, eval_vars, ingest_vars, tasks, next_author,
                   pulled, puts, prev_wrote, sink, saves, reload_vars, config_vars>>

\* the names draw_frame has drawn on the frame of task t: draw_frame draws on
\* the array it is given, the one images_batch holds
drawn(t) == [k \in 1..Len(tasks[t].log) |-> tasks[t].log[k].name]

\* frame j (from 1) of the pulled batch as the source gave it
raw_frame(j) == [batch |-> pulled, frame |-> j, names |-> <<>>, error |-> FALSE]

\* images_batch as it is after the tasks ran: images_batch[1::2] are the
\* arrays the tasks drew on
images_batch ==
    [j \in 1..batch_images |->
        IF j % 2 = 0 THEN [raw_frame(j) EXCEPT !.names = drawn(j \div 2)]
                     ELSE raw_frame(j)]

\* the result gather gives for task t: the image, or the exception it raised
task_result(t) ==
    IF tasks[t].pc = "failed" THEN [raw_frame(2 * t) EXCEPT !.error = TRUE]
                              ELSE images_batch[2 * t]

all_images_swapped ==
    [j \in 1..(2 * images_to_process) |->
        IF j % 2 = 0 THEN images_batch[j - 1] ELSE task_result((j + 1) \div 2)]

\* for pair_images in zip(images_raw, batch_processed): all_images.extend(...)
all_images ==
    [j \in 1..(2 * images_to_process) |->
        IF j % 2 = 0 THEN task_result(j \div 2) ELSE images_batch[j]]

\* await self.streamer.save(all_images); a raise goes to the except clause
Save ==
    /\ st_pc = "save"
    /\ \E raised \in BOOLEAN :
          /\ st_pc' = IF raised THEN "save_raw" ELSE "pull"
          /\ sink' = IF raised THEN sink ELSE [kind |-> "processed", images |-> all_images]
          /\ saves' = IF raised THEN saves ELSE saves + 1
    /\ UNCHANGED <<db, now, sweep_vars, eval_vars, ingest_vars, batch_processed, tasks,
                   next_author, pulled, puts, prev_wrote, reload_vars, config_vars>>

\* except Exception: await self.streamer.save(images_batch); a raise here
\* leaves the while loop and ends start()
SaveRaw ==
    /\ st_pc = "save_raw"
    /\ \E raised \in BOOLEAN :
          /\ st_pc' = IF raised THEN "dead" ELSE "pull"
          /\ sink' = IF raised THEN sink ELSE [kind |-> "raw", images |-> images_batch]
          /\ saves' = IF raised THEN saves ELSE saves + 1
    /\ UNCHANGED <<db, now, sweep_vars, eval_vars, ingest_vars, batch_processed, tasks,
                   next_author, pulled, puts, prev_wrote, reload_vars, config_vars>>

\* ---------------------------------------------------- detect_type_user

\* if np.any(known_comparations): draw "conocido"; continue
known_step_no_continue(known_comparations) == "read_batch"

known_step(known_comparations) ==
    IF np_any(known_comparations) THEN "continue" ELSE "read_batch"

\* if batch % self.frequency_save_new_unknows == 0
sampled_always(batch, every) == TRUE

sampled(batch, every) == batch % every = 0

\* the next face of the zip, or the return; log is the history of the faces drawn
NextFace(task, name) ==
    [task EXCEPT !.log = Append(@, [face |-> task.faces[task.i], name |-> name,
                                    i |-> task.i, known |-> task.known,
                                    unknown |-> task.unknown]),
                 !.i = @ + 1,
                 !.pc = IF task.i + 1 > Len(task.faces) THEN "done" ELSE "known"]

\* history: whether an entry of the set matches the face
Matches(encodings, face) == \E k \in 1..Len(encodings) : Match(encodings[k], face)

\* the comparison with the known set, then the read of the batch counter
TaskKnown(t) ==
    /\ st_pc = "gather"
    /\ tasks[t].pc = "known"
    /\ LET face == tasks[t].faces[tasks[t].i]
           task == [tasks[t] EXCEPT !.known = Matches(kn_encodings, face),
                                    !.unknown = Matches(un_encodings, face)]
           known_comparations == compare(kn_encodings, task.faces[task.i])
           batch == batch_processed
       IN  tasks' = [tasks EXCEPT ![t] =
              IF known_step(known_comparations) = "continue"
              THEN NextFace(task, "conocido")
              ELSE IF sampled(batch, frequency_save_new_unknows)
                   THEN [task EXCEPT !.batch = batch, !.pc = "unknown"]
                   ELSE NextFace([task EXCEPT !.batch = batch], "desconocido")]
    /\ UNCHANGED <<db, now, sweep_vars, eval_vars, ingest_vars, batch_processed, st_pc,
                   next_author, pulled, puts, prev_wrote, sink, saves, reload_vars,
                   config_vars>>

\* save_new_unknown's record: the two dates are two reads of the clock
new_unknown(encoding, author, init_date, last_date) ==
    [author |-> author, detection |-> encoding, knowledge |-> FALSE, frequency |-> 0,
     init_date |-> init_date, last_date |-> last_date]

\* history: the ids of the entries the comparison found matching
MatchedIds(authors, comparations) ==
    {authors[k] : k \in {j \in DOMAIN authors \cap DOMAIN comparations : comparations[j]}}

\* the comparison with the unknown set; no match: save_new_unknown
TaskUnknown(t) ==
    /\ st_pc = "gather"
    /\ tasks[t].pc = "unknown"
    /\ LET face == tasks[t].faces[tasks[t].i]
           task == [tasks[t] EXCEPT !.unknown = Matches(un_encodings, face)]
           unknown_comparations == compare(un_encodings, face)
       IN  IF np_any(unknown_comparations)
           THEN /\ tasks' = [tasks EXCEPT ![t] =
                                [task EXCEPT !.comp = unknown_comparations,
                                             !.matched = MatchedIds(un_authors,
                                                             unknown_comparations),
                                             !.pc = "lookup"]]
                /\ UNCHANGED <<new_users, next_author, puts, now>>
           ELSE \E last_date \in now..(IF now < MaxTime THEN now + 1 ELSE now) :
                LET user == new_unknown(face, next_author, now, last_date)
                IN  /\ new_users' = Append(new_users, user)
                    /\ next_author' = next_author + 1
                    /\ now' = last_date
                    /\ puts' = puts \cup {[t |-> t, i |-> task.i, queue |-> "new_users",
                                           batch |-> task.batch, item |-> user,
                                           authors |-> {db[k].author : k \in 1..Len(db)}
                                               \cup Range(un_authors) \cup Range(kn_authors)
                                               \cup {new_users[k].author :
                                                        k \in 1..Len(new_users)}]}
                    /\ tasks' = [tasks EXCEPT ![t] = NextFace(task, "desconocido")]
    /\ UNCHANGED <<db, sweep_vars, eval_vars, un_authors, un_encodings, in_pc, new_user,
                   batch_processed, st_pc, pulled, prev_wrote, sink, saves, reload_vars,
                   config_vars>>

\* previous_authors = self.detector_unknows.authors[:len(unknown_comparations)];
\* save_evaluate_detection(previous_authors[unknown_comparations][0]).  A boolean
\* index longer than the array raises IndexError, which ends the task.
TaskLookup(t) ==
    /\ st_pc = "gather"
    /\ tasks[t].pc = "lookup"
    /\ LET task == tasks[t]
           unknown_comparations == task.comp
       IN  IF Len(un_authors) < Len(unknown_comparations)
           THEN /\ tasks' = [tasks EXCEPT ![t] = [task EXCEPT !.pc = "failed"]]
                /\ UNCHANGED <<evaluate_users, produced, puts>>
           ELSE LET previous_authors ==
                        SubSeq(un_authors, 1, Len(unknown_comparations))
                    author == MaskSelect(previous_authors, unknown_comparations)[1]
                IN  /\ save_evaluate_detection(author)
                    /\ puts' = puts \cup {[t |-> t, i |-> task.i,
                                           queue |-> "evaluate_users",
                                           batch |-> task.batch, item |-> author,
                                           matched |-> task.matched]}
                    /\ tasks' = [tasks EXCEPT ![t] = NextFace(task, "desconocido")]
    /\ UNCHANGED <<db, now, sweep_vars, kn_authors, kn_encodings, ev_pc,
                   user_evaludated, ev_hist, ingest_vars, batch_processed, st_pc,
                   next_author, pulled, prev_wrote, sink, saves, reload_vars,
                   config_vars>>

\* ------------------------------------------------------------ the system

\* self.frequency_save_new_unknows = max(2, self.frequency_save_new_unknows)
save_every(configured) == IF configured > 2 THEN configured ELSE 2

InitUserFields ==
    [detection : Encodings, knowledge : BOOLEAN, frequency : {0, min_frequency},
     init_date : {0}, last_date : {0}]

Init ==
    /\ \E n \in 0..MaxInitUsers : \E f \in [1..n -> InitUserFields] :
          /\ db = StoreOf(f)
          /\ next_author = n + 1
    /\ \E configured \in 0..MaxSaveEvery :
          frequency_save_new_unknows = save_every(configured)
    /\ batch_images \in 1..MaxBatchImages
    /\ sink = [kind |-> "none", images |-> <<>>]
    /\ saves = 0
    /\ now = min_date_knowledge + 1
    /\ SweepIdle
    /\ EvalIdle
    /\ new_users = <<>>
    /\ un_authors = <<>>
    /\ un_encodings = <<>>
    /\ in_pc = "get"
    /\ new_user = NoUser
    /\ batch_processed = 0
    /\ st_pc = "preload"
    /\ tasks = <<>>
    /\ rl_pc = "sweep"
    /\ reloads = 0
    /\ rl_appended = FALSE
    /\ rl_users = <<>>
    /\ pulled = 0
    /\ puts = {}
    /\ prev_wrote = FALSE

Next ==
    \/ PreloadSweep
    \/ InsertKnownUsers
    \/ AssignKnownUsers
    \/ InsertUnknownUsers
    \/ AssignUnknownUsers
    \/ ReloadFire
    \/ Pull
    \/ \E t \in 1..images_to_process : TaskKnown(t)
    \/ \E t \in 1..images_to_process : TaskUnknown(t)
    \/ \E t \in 1..images_to_process : TaskLookup(t)
    \/ Count
    \/ Save
    \/ SaveRaw
    \/ IngestGet
    \/ IngestAppendAuthors
    \/ IngestAppendEncodings
    \/ EvaluateGet
    \/ EvaluateAppendAuthors
    \/ EvaluateAppendEncodings
    \/ Tick

Spec == Init /\ [][Next]_vars

\* Fair scheduling of the two consumer threads: a consumer that can take its
\* next step eventually takes it.
Fairness ==
    /\ WF_vars(IngestGet)
    /\ WF_vars(IngestAppendAuthors)
    /\ WF_vars(IngestAppendEncodings)
    /\ WF_vars(EvaluateGet)
    /\ WF_vars(EvaluateAppendAuthors)
    /\ WF_vars(EvaluateAppendEncodings)

\* The batch loop and the two consumers, started on a store of unknown users
\* with the default configuration; the clock moves only between the two reads
\* of save_new_unknown and no scheduled reload fires.
InitQueues ==
    /\ \E n \in 1..MaxInitUsers :
       \E f \in [1..n -> [detection : Encodings, frequency : {0, min_frequency}]] :
          /\ db = [i \in 1..n |-> [author |-> i, detection |-> f[i].detection,
                                   knowledge |-> FALSE, frequency |-> f[i].frequency,
                                   init_date |-> 0, last_date |-> 0]]
          /\ next_author = n + 1
    /\ now = min_date_knowledge + 1
    /\ SweepIdle
    /\ EvalIdle
    /\ new_users = <<>>
    /\ un_authors = <<>>
    /\ un_encodings = <<>>
    /\ in_pc = "get"
    /\ new_user = NoUser
    /\ batch_processed = 0
    /\ st_pc = "preload"
    /\ tasks = <<>>
    /\ rl_pc = "sweep"
    /\ reloads = 0
    /\ rl_appended = FALSE
    /\ rl_users = <<>>
    /\ frequency_save_new_unknows = 2
    /\ batch_images = 2
    /\ sink = [kind |-> "none", images |-> <<>>]
    /\ saves = 0
    /\ pulled = 0
    /\ puts = {}
    /\ prev_wrote = FALSE

NextQueues ==
    \/ PreloadSweep
    \/ InsertKnownUsers
    \/ AssignKnownUsers
    \/ InsertUnknownUsers
    \/ AssignUnknownUsers
    \/ Pull
    \/ \E t \in 1..images_to_process : TaskKnown(t)
    \/ \E t \in 1..images_to_process : TaskUnknown(t)
    \/ \E t \in 1..images_to_process : TaskLookup(t)
    \/ Count
    \/ Save
    \/ SaveRaw
    \/ IngestGet
    \/ IngestAppendAuthors
    \/ IngestAppendEncodings
    \/ EvaluateGet
    \/ EvaluateAppendAuthors
    \/ EvaluateAppendEncodings

SpecQueues == InitQueues /\ [][NextQueues]_vars

FairSpec == SpecQueues /\ Fairness

\* ------------------------------------------- the consumers on empty queues

\* add_new_users: `if not self.new_users.empty()` is false
IngestEmpty ==
    /\ in_pc = "get"
    /\ new_users = <<>>
    /\ in_pc' = "found_empty"
    /\ UNCHANGED <<db, now, sweep_vars, eval_vars, new_users, un_authors, un_encodings,
                   new_user, batch_vars, reload_vars, config_vars>>

\* add_new_users: the if has no else and the try body ends, so `while True`
\* starts the next pass at once, with no await on the way
IngestAgain ==
    /\ in_pc = "found_empty"
    /\ in_pc' = "get"
    /\ UNCHANGED <<db, now, sweep_vars, eval_vars, new_users, un_authors, un_encodings,
                   new_user, batch_vars, reload_vars, config_vars>>

\* evaluate_detections: `if not self.evaluate_users.empty()` is false
EvaluateEmpty ==
    /\ ev_pc = "get"
    /\ evaluate_users = <<>>
    /\ ev_pc' = "found_empty"
    /\ UNCHANGED <<db, now, sweep_vars, evaluate_users, kn_authors, kn_encodings,
                   user_evaludated, ev_hist, produced, pipe_vars>>

\* evaluate_detections: `while True` starts the next pass at once
EvaluateAgain ==
    /\ ev_pc = "found_empty"
    /\ ev_pc' = "get"
    /\ UNCHANGED <<db, now, sweep_vars, evaluate_users, kn_authors, kn_encodings,
                   user_evaludated, ev_hist, produced, pipe_vars>>

NextPoll ==
    \/ NextQueues
    \/ IngestEmpty
    \/ IngestAgain
    \/ EvaluateEmpty
    \/ EvaluateAgain

SpecPoll == InitQueues /\ [][NextPoll]_vars

\* ------------------------------------------- claims about the evaluation

\* C2: an evaluated unknown record becomes known exactly when the time since
\* its init_date is more than the span and its frequency is at least
\* min_frequency; otherwise its knowledge stays false and nothing but its
\* frequency and last_date differs from the record fetched.
C2_PromotionIffSpanAndFrequency ==
    (ev_hist.kind \in {"user", "raised"} /\ ~ev_hist.before.knowledge) =>
        LET b    == ev_hist.before
            u    == ev_hist.user
            cond == /\ ev_hist.at - b.init_date > min_date_knowledge
                    /\ b.frequency >= min_frequency
        IN  /\ u.knowledge <=> cond
            /\ ~cond => [u EXCEPT !.frequency = b.frequency,
                                  !.last_date = b.last_date] = b

C2_Witness ==
    /\ ev_hist.kind = "user"
    /\ ~ev_hist.before.knowledge
    /\ ev_hist.user.knowledge
    /\ ev_hist.before.frequency = min_frequency
    /\ ev_pc = "get"
    /\ user_evaludated.author \in Range(kn_authors)

\* C3: the store is written exactly when the evaluation changed the record
\* fetched, and then holds the changed record.
C3_WriteBackWhenChanged ==
    ev_hist.kind = "user" =>
        /\ ev_hist.wrote <=> (ev_hist.user # ev_hist.before)
        /\ find_user(db, ev_hist.user.author) = ev_hist.user

\* ------------------------------------------------ claims about the sweep

Survivors == get_sort_users(db)

\* C4: after a sweep, every record of the swept list that has a record after
\* it was taken as head or deleted, and so no two surviving unknown records
\* have embeddings that match each other.
C4_SweepLeavesNoMatchingPair ==
    sw_pc = "done" =>
        /\ \A i \in 1..(Len(Survivors) - 1) :
               [author |-> Survivors[i].author, run |-> sweeps] \in heads
        /\ \A i, j \in 1..Len(db) :
               (i # j /\ ~db[i].knowledge /\ ~db[j].knowledge)
                   => ~Match(db[i].detection, db[j].detection)

\* C5: every record a sweep deleted matches the head it was compared with,
\* that head is still in the store and its frequency is not less than the
\* deleted record's; a record taken as head is not deleted by the same sweep.
C5_SweepKeepsHigherFrequency ==
    /\ \A r \in removed :
           /\ \E i \in 1..Len(db) : db[i] = r.head
           /\ Match(r.head.detection, r.user.detection)
           /\ r.head.frequency >= r.user.frequency
    /\ \A h \in heads :
           ~\E r \in removed : r.user.author = h.author /\ r.run = h.run

C5_Witness ==
    /\ sw_pc = "done"
    /\ \E r \in removed : r.head.frequency > r.user.frequency

\* C6: a sweep run directly after another sweep deletes no record.
C6_SecondSweepDeletesNothing ==
    \A r \in removed : r.run = 1

C6_Witness ==
    /\ sweeps = 2
    /\ sw_pc = "done"
    /\ removed # {}
    /\ Cardinality({h \in heads : h.run = 2}) >= 2

\* C7: the sweep deletes only unknown records, and only because they match
\* an unknown head.
C7_SweepTouchesOnlyUnknown ==
    \A r \in removed : ~r.user.knowledge /\ ~r.head.knowledge

\* ----------------------------------------- claims about the classification

\* C1: a face whose embedding matches a KnownSet entry is marked Known and
\* puts nothing on either queue, whatever the batch counter and whether or not
\* it also matches an UnknownSet entry.
C1_KnownMatchIsKnownAndSilent ==
    \A t \in 1..Len(tasks) :
        /\ tasks[t].pc \in {"unknown", "lookup"} => ~tasks[t].known
        /\ \A k \in 1..Len(tasks[t].log) :
              tasks[t].log[k].known =>
                  /\ tasks[t].log[k].name = "conocido"
                  /\ ~\E p \in puts : p.t = t /\ p.i = tasks[t].log[k].i

\* C1 happens: on a sampled batch after the first, a face matching both sets
\* was marked Known.
C1_Witness ==
    /\ st_pc = "gather"
    /\ batch_processed > 0
    /\ batch_processed % frequency_save_new_unknows = 0
    /\ \E t \in 1..Len(tasks) : \E k \in 1..Len(tasks[t].log) :
          /\ tasks[t].log[k].known
          /\ tasks[t].log[k].unknown
          /\ tasks[t].log[k].name = "conocido"

\* C8: on a sampled batch a face matching neither set puts exactly one record
\* on the new-identity queue, with an id no existing identity has, frequency 0,
\* knowledge false and init_date equal to last_date.
C8_NewUnknownRecord ==
    \A t \in 1..Len(tasks) : \A k \in 1..Len(tasks[t].log) :
        LET entry == tasks[t].log[k]
            mine == {p \in puts : p.t = t /\ p.i = entry.i}
        IN  (~entry.known /\ ~entry.unknown /\ mine # {}) =>
                /\ Cardinality(mine) = 1
                /\ \A p \in mine :
                      /\ p.queue = "new_users"
                      /\ p.item.author \notin p.authors
                      /\ p.item.frequency = 0
                      /\ p.item.knowledge = FALSE
                      /\ p.item.detection = entry.face
                      /\ p.item.init_date = p.item.last_date

\* C9: a face matching no KnownSet entry is compared against UnknownSet, and
\* writes to a queue, only when the batch counter read during its
\* classification is a multiple of N = max(2, frequency_save_new_unknows); no
\* two consecutive batches both write.
C9_WritesOnlyOnSampledBatches ==
    /\ frequency_save_new_unknows >= 2
    /\ \A t \in 1..Len(tasks) :
          tasks[t].pc \in {"unknown", "lookup"} =>
              /\ tasks[t].batch = batch_processed
              /\ tasks[t].batch % frequency_save_new_unknows = 0
    /\ \A p \in puts :
          /\ p.batch % frequency_save_new_unknows = 0
          /\ st_pc = "gather" => p.batch = batch_processed
    /\ ~(prev_wrote /\ puts # {})

\* C9 happens: the batch before wrote to a queue, and on this batch, whose
\* counter is no multiple of N, a face matching no KnownSet entry was drawn
\* without a queue write.
C9_Witness ==
    /\ st_pc = "gather"
    /\ batch_processed % frequency_save_new_unknows # 0
    /\ prev_wrote
    /\ puts = {}
    /\ \E t \in 1..Len(tasks) : \E k \in 1..Len(tasks[t].log) :
          /\ ~tasks[t].log[k].known
          /\ tasks[t].log[k].name = "desconocido"

\* index i of both sequences refers to the same identity of the store
Aligned(authors, encodings) ==
    /\ Len(authors) = Len(encodings)
    /\ \A i \in 1..Len(authors) : \A k \in 1..Len(db) :
          db[k].author = authors[i] => db[k].detection = encodings[i]

\* C10: in every state a classification task can observe, KnownSet and
\* UnknownSet each have identities and embeddings of equal length, index-aligned.
C10_SetsAligned ==
    (st_pc = "gather" /\ \E t \in 1..Len(tasks) :
                            tasks[t].pc \in {"known", "unknown", "lookup"}) =>
        /\ Aligned(kn_authors, kn_encodings)
        /\ Aligned(un_authors, un_encodings)

\* --------------------------------------------------- claims about the reload

\* the (id, embedding) pairs an in-memory set holds
PairsIn(authors, encodings) ==
    {<<authors[i], encodings[i]>> : i \in DOMAIN authors \cap DOMAIN encodings}

\* the (id, embedding) pairs of the store's records of one tier
PairsOfTier(users, knowledge) ==
    {<<users[k].author, users[k].detection>> :
        k \in {j \in 1..Len(users) : users[j].knowledge = knowledge}}

\* C11: when a reload completes and no worker appended to a set while it
\* rebuilt them, KnownSet holds exactly the pairs of the store's records with
\* knowledge = true and UnknownSet exactly those with knowledge = false; a tier
\* without records leaves its set empty.
C11_ReloadRebuildsSets ==
    [][(/\ rl_pc = "unknown_assign" /\ rl_pc' = "idle"
        /\ ~rl_appended /\ ev_pc = "get" /\ in_pc = "get") =>
           /\ Len(kn_authors') = Len(kn_encodings')
           /\ PairsIn(kn_authors', kn_encodings') = PairsOfTier(db', TRUE)
           /\ Len(un_authors') = Len(un_encodings')
           /\ PairsIn(un_authors', un_encodings') = PairsOfTier(db', FALSE)]_vars

\* ----------------------------------------------- claims about the batch loop

\* C12: no exception of a frame's extraction or classification, of a store
\* operation, of the output sink or of a consumer iteration ends the batch
\* loop or a consumer loop: the loop goes on to a further iteration.
C12_LoopsGoOn ==
    /\ st_pc # "dead"
    /\ ev_hist.kind \in {"raised", "empty"} => ev_pc = "get"
    /\ in_pc \in {"get", "append_authors", "append_encodings"}

\* C13: after a batch-level exception the sink is handed the frames of the
\* batch in pull order and as the source gave them, and every pulled batch is
\* handed to the sink.
C13_RawBatchOnException ==
    /\ sink.kind = "raw" =>
           sink.images = [j \in 1..batch_images |->
                             [batch |-> pulled, frame |-> j, names |-> <<>>,
                              error |-> FALSE]]
    /\ st_pc = "pull" => saves = pulled
    /\ st_pc # "dead"

C15_OddBatchRejected ==
    /\ batch_images % 2 = 1 =>
           /\ pulled = 0
           /\ saves = 0
           /\ st_pc \in {"preload", "invalid_batch"}
    /\ batch_images % 2 = 0 => st_pc \notin {"invalid_batch", "raised"}

\* ---------------------------------------------------- claims about the queues

\* a queue changes only by losing its oldest item or gaining a newest one
FifoStep(q, r) ==
    \/ r = q
    \/ q # <<>> /\ r = Tail(q)
    \/ Len(r) = Len(q) + 1 /\ SubSeq(r, 1, Len(q)) = q

\* no more queue writes than faces classified in a run
MaxPuts == MaxBatches * MaxFaces * (MaxBatchImages \div 2)

\* the authors of the records waiting on new_users
Waiting == {new_users[k].author : k \in 1..Len(new_users)}

\* C16: under fair scheduling every record put on new_users and every id put on
\* evaluate_users is eventually dequeued by its consumer, in the order of the
\* puts: each queue only loses its oldest item; a waiting record (its author
\* is unique) eventually waits no more; and the n-th id put on evaluate_users
\* is eventually among the ids taken (the puts so far less those waiting).
C16_QueuesDrainInOrder ==
    /\ [][FifoStep(new_users, new_users') /\ FifoStep(evaluate_users, evaluate_users')]_vars
    /\ \A a \in 1..(MaxInitUsers + MaxPuts) :
          (a \in Waiting) ~> (a \notin Waiting)
    /\ \A n \in 1..MaxPuts :
          (produced >= n) ~> (produced - Len(evaluate_users) >= n)

\* C16 happens: a record was taken from new_users and an id waits on
\* evaluate_users.
C16_Witness ==
    /\ new_user # NoUser
    /\ evaluate_users # <<>>

\* C17: a consumer that finds its queue empty suspends or yields instead of
\* spinning: the step it takes after finding the queue empty is not the start
\* of its next pass.
C17_EmptyQueueSuspends ==
    [][/\ in_pc = "found_empty" => in_pc' # "get"
       /\ ev_pc = "found_empty" => ev_pc' # "get"]_vars

\* ------------------------------------ further claims about the evaluation

\* C18: Known is terminal: an identity the evaluator promoted has a persisted
\* record with knowledge = true, and is in KnownSet once its append is done and
\* after every later reload.
C18_KnownIsTerminal ==
    /\ ev_pc \in {"append_authors", "append_encodings"} =>
          LET u == find_user(db, user_evaludated.author)
          IN  u # NoUser /\ u.knowledge
    /\ (ev_hist.kind = "user" /\ ev_pc = "get" /\ rl_pc = "idle") =>
          (ev_hist.user.knowledge =>
              \E i \in 1..Len(kn_authors) : kn_authors[i] = ev_hist.user.author)

\* C19: when the id dequeued has no record in the store, evaluate_detection
\* returns the empty result without raising, the store and KnownSet are left
\* unchanged, and the consumer is back at taking the next item.
C19_MissingIdentityIsSkipped ==
    [][(/\ ev_pc = "get"
        /\ evaluate_users # <<>>
        /\ evaluate_users' = Tail(evaluate_users)
        /\ \A k \in 1..Len(db) : db[k].author # Head(evaluate_users)) =>
           /\ ev_hist'.kind = "empty"
           /\ db' = db
           /\ kn_authors' = kn_authors
           /\ kn_encodings' = kn_encodings
           /\ ev_pc' = "get"]_vars

\* C19 happens: an id without a record was evaluated while another id waits.
C19_Witness ==
    /\ ev_hist.kind = "empty"
    /\ evaluate_users # <<>>
    /\ ev_pc = "get"

\* C20: when an Unknown record is evaluated, the promotion condition does not
\* hold and time has passed since last_date, last_date becomes the current
\* time and frequency becomes score(count(its previous frequency) + 1), not
\* less than before; when no time has passed the record is left unchanged.
C20_FrequencyAdvances ==
    (ev_hist.kind \in {"user", "raised"} /\ ~ev_hist.before.knowledge) =>
        LET b == ev_hist.before  u == ev_hist.user
            cond == /\ ev_hist.at - b.init_date > min_date_knowledge
                    /\ b.frequency >= min_frequency
            prev_days == frequency(min_date_knowledge, 1, b.frequency, TRUE)
        IN  ~cond =>
               IF ev_hist.at - b.last_date > 0
               THEN /\ u.last_date = ev_hist.at
                    /\ u.frequency = frequency(min_date_knowledge, 1, prev_days + 1, FALSE)
                    /\ u.frequency >= b.frequency
               ELSE u = b

\* ------------------------------------------- claims about the interleavings

\* C21: the id put on evaluate_users for a face is the id of an UnknownSet
\* entry whose embedding matched the face in the comparison just made, and the
\* lookup of that id never fails, whatever the ingestion worker or a reload
\* did to UnknownSet in between.
C21_LookupPicksMatchedId ==
    /\ \A t \in 1..Len(tasks) : ~(tasks[t].pc = "failed" /\ tasks[t].comp # <<>>)
    /\ \A p \in puts : p.queue = "evaluate_users" => p.item \in p.matched

\* ------------------------------------------------------------------ C22

\* the store records save_new_unknown created (it stamps them with the clock,
\* which is past every date of the records the store started with)
Ingested(u) == u.knowledge = FALSE /\ u.init_date > MaxInitDate

\* C22: once the reload and the worker's append have both finished, every
\* identity a worker persisted in the store and appended to its set is in that
\* set: the new unknown records of the ingestion worker in UnknownSet, the
\* records the evaluation worker wrote as known in KnownSet.
C22_AppendSurvivesReload ==
    (rl_pc = "idle" /\ in_pc = "get" /\ ev_pc = "get") =>
        /\ \A k \in 1..Len(db) :
               Ingested(db[k]) => db[k].author \in Range(un_authors)
        /\ \A k \in 1..Len(db) :
               (db[k].knowledge /\ ev_hist.kind = "user" /\ ev_hist.wrote
                    /\ ev_hist.user.author = db[k].author)
                   => db[k].author \in Range(kn_authors)

\* ------------------------------------------------------------------ C23

\* C23: when the store holds no user of the system, the sweep of a reload
\* ends without raising and deletes nothing, and the reload goes on to load
\* KnownSet and UnknownSet.
C23_EmptyStoreSweepCompletes ==
    [][(rl_pc = "sweep" /\ rl_pc' # "sweep" /\ db = <<>>) =>
           (rl_pc' = "known" /\ db' = db /\ removed' = removed
                /\ st_pc' # "raised")]_vars

\* ------------------------------------------------------------------ C24

\* no value occurs at two positions of the sequence
NoDuplicate(s) == \A i, j \in 1..Len(s) : s[i] = s[j] => i = j

\* C24: no identity id occurs more than once in KnownSet and none occurs more
\* than once in UnknownSet.
C24_NoDuplicateIds == NoDuplicate(kn_authors) /\ NoDuplicate(un_authors)

\* ------------------------------------------------------------------ C25

MaxAnalysed == 2        \* SpecFrames: frames of one batch that are analysed
MaxFrameBatches == 2    \* SpecFrames: batches pulled

\* The batch loop and the two consumers as in SpecQueues, with batches of
\* 2 * MaxAnalysed frames, so that one batch runs MaxAnalysed tasks.
InitFrames ==
    /\ \E n \in 1..MaxInitUsers :
       \E f \in [1..n -> [detection : Encodings, frequency : {0, min_frequency}]] :
          /\ db = [i \in 1..n |-> [author |-> i, detection |-> f[i].detection,
                                   knowledge |-> FALSE, frequency |-> f[i].frequency,
                                   init_date |-> 0, last_date |-> 0]]
          /\ next_author = n + 1
    /\ now = min_date_knowledge + 1
    /\ SweepIdle
    /\ EvalIdle
    /\ new_users = <<>>
    /\ un_authors = <<>>
    /\ un_encodings = <<>>
    /\ in_pc = "get"
    /\ new_user = NoUser
    /\ batch_processed = 0
    /\ st_pc = "preload"
    /\ tasks = <<>>
    /\ rl_pc = "sweep"
    /\ reloads = 0
    /\ rl_appended = FALSE
    /\ rl_users = <<>>
    /\ frequency_save_new_unknows = 2
    /\ batch_images = 2 * MaxAnalysed
    /\ sink = [kind |-> "none", images |-> <<>>]
    /\ saves = 0
    /\ pulled = 0
    /\ puts = {}
    /\ prev_wrote = FALSE

\* the pull of a batch, for the first MaxFrameBatches batches
PullFrames ==
    /\ pulled < MaxFrameBatches
    /\ Pull

NextFrames ==
    \/ PreloadSweep
    \/ InsertKnownUsers
    \/ AssignKnownUsers
    \/ InsertUnknownUsers
    \/ AssignUnknownUsers
    \/ PullFrames
    \/ \E t \in 1..images_to_process : TaskKnown(t)
    \/ \E t \in 1..images_to_process : TaskUnknown(t)
    \/ \E t \in 1..images_to_process : TaskLookup(t)
    \/ Count
    \/ Save
    \/ SaveRaw
    \/ IngestGet
    \/ IngestAppendAuthors
    \/ IngestAppendEncodings
    \/ EvaluateGet
    \/ EvaluateAppendAuthors
    \/ EvaluateAppendEncodings

SpecFrames == InitFrames /\ [][NextFrames]_vars

\* C25: within one batch, the new-unknown records put on new_users have
\* embeddings that do not match each other: a face seen in several analysed
\* frames gives at most one record.
C25_OneRecordPerFace ==
    \A p, q \in puts :
        (/\ p.queue = "new_users" /\ q.queue = "new_users"
         /\ Match(p.item.detection, q.item.detection)) => p = q

\* ------------------------------------------------------------------ C26

\* C26: the ingestion worker appends an identity to UnknownSet only when its
\* record is in the store: at the append of the author the store holds a
\* record of that author.
C26_AppendOnlyAfterInsert ==
    [][(in_pc = "append_authors" /\ in_pc' = "append_encodings") =>
           \E k \in 1..Len(db) : db[k].author = new_user.author]_vars

\* ------------------------------------------------------------------ C27

\* C27: the sweep's loop terminates on every non-empty list: each pass either
\* ends the loop or leaves the working list strictly shorter, a pass compares
\* at most one head, and a loop that has started ends.
C27_SweepLoopTerminates ==
    /\ [][(sw_pc = "loop") =>
             /\ (sw_pc' = "done" \/ Len(sw_encodings') < Len(sw_encodings))
             /\ Len(sw_authors') = Len(sw_encodings')
             /\ Cardinality(heads' \ heads) <= 1]_vars
    /\ (sw_pc = "loop") ~> (sw_pc = "done")

\* a sweep has made two passes that compared a head, deleted matches and ended
C27_Witness ==
    /\ sw_pc = "done"
    /\ removed # {}
    /\ \E g, h \in heads : g.run = h.run /\ g.author # h.author
====
